---- MODULE Spec2Model ----
(***************************************************************************)
(* A model of the kernel front-end of matxscript:                          *)
(*   python/matx/kernel/parser.py    KernelParser, KernelNodeVisitor       *)
(*   python/matx/inductor/__init__.py  from_source                         *)
(* One behaviour is one driver call: either KernelParser.parse2 on one     *)
(* kernel function, or inductor.from_source on one compiling object.       *)
(***************************************************************************)
EXTENDS Integers, Sequences, FiniteSets, TLC

VARIABLES
    driver,                  \* which entry point this call is: "parse2" | "from_source"
    dev_mode,                \* matx.env.MATX_DEV_MODE
    args,                    \* KernelParser.args: ordered (name, annotation) pairs
    kp_symbols,              \* KernelParser.symbols: name -> shape symbol
    undiscovered,            \* dependencies DepsAnalysis has not reported yet
    pc,                      \* position of the driver
    ast_body,                \* body of the FunctionDef node handed to the visitor
    node_stack,              \* self.context.node_stack (<<>> while self.context is None)
    symbols,                 \* self.context.symbols
    func_params,             \* self.context.func_params
    session_handle_var_ctx,  \* KernelNodeVisitor.session_handle_var_ctx
    buffer_table,            \* keys of KernelNodeVisitor.buffer_table
    return_buffer,           \* KernelNodeVisitor.return_buffer is set
    body,                    \* local `body` of the outermost parse_body
    last_ast,                \* local `last_ast` of the outermost parse_body
    ir,                      \* node.ir, the value visit(node.ast) returned
    raised_exc,              \* the exception as it was raised, where it was raised
    exc                      \* the exception that reached the caller of the driver

vars == <<driver, dev_mode, args, kp_symbols, undiscovered, pc, ast_body,
          node_stack, symbols, func_params, session_handle_var_ctx,
          buffer_table, return_buffer, body, last_ast, ir, raised_exc, exc>>

-----------------------------------------------------------------------------
(* Bounds of the model *)

\* longest kernel body (number of top-level statements)
MaxBody == 2
\* most dependencies the dependency analysis can still discover
MaxDeps == 1

-----------------------------------------------------------------------------
(* Python values and IR nodes the visitor produces *)

PyNone == [py |-> "None"]
PyStr(s) == [py |-> "str", s |-> s]
PyList(items) == [py |-> "list", items |-> items]
PyTuple(items) == [py |-> "tuple", items |-> items]

NoneExpr == [py |-> "NoneExpr"]
IrConst == [py |-> "const"]
PrimVar(name, dtype) == [py |-> "PrimVar", name |-> name, dtype |-> dtype]
Span == [py |-> "Span"]
ReturnStmt(value, span) == [py |-> "ReturnStmt", rvalue |-> value, span |-> span]
SeqStmt(stmts, span) == [py |-> "SeqStmt", seq |-> stmts, span |-> span]
Function(params, fbody, span) ==
    [py |-> "Function", params |-> params, fbody |-> fbody,
     ret_type |-> "NDArrayType", span |-> span]

\* isinstance(res, _ir.Stmt)
IsStmt(v) == v.py \in {"ReturnStmt", "SeqStmt"}

-----------------------------------------------------------------------------
(* Syntax tree nodes *)

AstNone == [kind |-> "None"]
Name(id) == [kind |-> "Name", id |-> id]
Constant(c) == [kind |-> "Constant", cval |-> c]
UnaryOp(e) == [kind |-> "UnaryOp", operand |-> e]
BinOp(l, r) == [kind |-> "BinOp", op |-> "Add", left |-> l, right |-> r]
Tuple(elts) == [kind |-> "Tuple", elts |-> elts]
Subscript(e) == [kind |-> "Subscript", sval |-> e]
Attribute(e, a) == [kind |-> "Attribute", aval |-> e, attr |-> a]
Compare(l, r) == [kind |-> "Compare", left |-> l, right |-> r]
Return(e) == [kind |-> "Return", value |-> e]
Assign(targets, e) == [kind |-> "Assign", targets |-> targets, value |-> e]
Block(k) == [kind |-> k]
FunctionDef(stmts) == [kind |-> "FunctionDef", fbody |-> stmts]

-----------------------------------------------------------------------------
(* Parameter annotations and KernelParser.__init__ *)

\* sympy.Symbol(n, **assumptions): two symbols are the same symbol only when
\* name and assumptions agree; str() of a symbol is its name alone
Symbol(n, assume) == [sym |-> TRUE, name |-> n, val |-> 0, assume |-> assume]
SymDim(n) == Symbol(n, "positive")
IntDim(v) == [sym |-> FALSE, name |-> "", val |-> v, assume |-> ""]
NDType(dtype, shape) == [dtype |-> dtype, shape |-> shape]
Arg(name, type) == [name |-> name, type |-> type]

EmptyMap == [n \in {} |-> PyNone]

\* symbol.is_symbol(dim)
is_symbol(dim) == dim.sym

\* the dicts {str(s): s for s in symbols} that can result from the set
\* `symbols`: where two symbols of the set have one name, the one the set
\* yields last is kept, and the order in which a set yields is not fixed
DictsByName(syms) ==
    {f \in [{s.name : s \in syms} -> syms] : \A n \in DOMAIN f : f[n].name = n}

\* an extraction that keeps every dimension, symbolic or not
extract_symbol_from_type_All(t) ==
    DictsByName({t.shape[i] : i \in 1..Len(t.shape)})

\* the results extract_symbol_from_type(t) can return
extract_symbol_from_type(t) ==
    LET shape == t.shape
        syms == {shape[i] : i \in {j \in 1..Len(shape) : is_symbol(shape[j])}}
    IN  DictsByName(syms)

\* the loop of KernelParser.__init__ over self.args.values(), i arguments
\* done: the values self.symbols can have
RECURSIVE SymbolsOf(_, _)
SymbolsOf(as, i) ==
    IF i = 0 THEN {EmptyMap}
    ELSE {e @@ p : e \in extract_symbol_from_type(as[i].type),
                   p \in SymbolsOf(as, i - 1)}

ArgNames(as) == {as[i].name : i \in 1..Len(as)}
ArgType(as, n) == (CHOOSE i \in 1..Len(as) : as[i].name = n)

-----------------------------------------------------------------------------
(* ScopeContext (matx.script.context), as the visitor uses it *)

Reverse(s) == [i \in 1..Len(s) |-> s[Len(s) + 1 - i]]
ButLast(s) == SubSeq(s, 1, Len(s) - 1)

ScopeContext(st) ==
    [st EXCEPT !.node_stack = <<>>, !.symbols = <<>>, !.func_params = <<>>]

new_scope(st, nodes) ==
    [st EXCEPT !.node_stack = Append(@, Reverse(nodes)),
               !.symbols = Append(@, EmptyMap)]

pop_scope(st) ==
    [st EXCEPT !.node_stack = ButLast(@), !.symbols = ButLast(@)]

update_symbol(st, name, var) ==
    [st EXCEPT !.symbols[Len(st.symbols)] = (name :> var) @@ @]

-----------------------------------------------------------------------------
(* KernelNodeVisitor *)

Ok(v, st) == [raised |-> FALSE, val |-> v, err |-> "none", st |-> st]
Raise(k, st) == [raised |-> TRUE, val |-> PyNone, err |-> k, st |-> st]

\* the node kinds for which the class defines a visit_<Kind> method
VisitorKinds ==
    {"FunctionDef", "Constant", "Name", "UnaryOp", "BinOp", "BoolOp", "Compare",
     "Call", "keyword", "Attribute", "Assign", "AnnAssign", "AugAssign", "If",
     "For", "Return"}

\* a generic_visit that ignores the node, as ast.NodeVisitor's own does for a leaf
generic_visit_Ignore(node, st) == Ok(PyNone, st)

generic_visit(node, st) == Raise("NotImplementedError", st)

push_handle_var(h, handle_var) == Append(h, handle_var)

\* a pop_handle_var that leaves the handle on the stack
pop_handle_var_Keep(h) == h

pop_handle_var(h) == ButLast(h)

\* a to_seq_stmt that wraps every list, a list of one statement too
to_seq_stmt_Always(stmts, span) == SeqStmt(stmts, span)

to_seq_stmt(stmts, span) ==
    IF Len(stmts) = 0 THEN SeqStmt(stmts, span)
    ELSE IF Len(stmts) > 1 THEN SeqStmt(stmts, span) ELSE stmts[1]

_get_type(operand, st) ==
    IF operand.py = "str" /\ operand.s \in ArgNames(args)
    THEN Ok(args[ArgType(args, operand.s)].type, st)
    ELSE Raise("SyntaxError", st)

visit_Constant(node, st) ==
    IF node.cval = "None" THEN Ok(NoneExpr, st)
    ELSE IF node.cval = "Number" THEN Ok(IrConst, st)
    ELSE Raise("NotImplementedError", st)

visit_Name(node, st) ==
    IF node.id \in DOMAIN kp_symbols THEN Ok(PyStr(node.id), st)
    ELSE IF node.id \in ArgNames(args) THEN Ok(PyStr(node.id), st)
    ELSE Ok(PyStr(node.id), st)

\* OpRegistry.get_bin_operator(lhs_t, rhs_t, opname) applied to its operands
BinOperator(lhs_var, rhs_var, lhs_t, rhs_t) ==
    [py |-> "BinOpResult", lhs |-> lhs_var, rhs |-> rhs_var]

RECURSIVE visit(_, _)
RECURSIVE parse_body_loop(_, _, _, _)

visit_UnaryOp(node, st) ==
    LET operand == visit(node.operand, st)
    IN  IF operand.raised THEN operand
        ELSE LET operand_t == _get_type(operand.val, operand.st)
             IN  IF operand_t.raised THEN operand_t ELSE Ok(PyNone, operand_t.st)

visit_BinOp(node, st) ==
    LET lhs == visit(node.left, st)
    IN  IF lhs.raised THEN lhs
        ELSE LET rhs == visit(node.right, lhs.st)
             IN  IF rhs.raised THEN rhs
                 ELSE LET lhs_t == _get_type(lhs.val, rhs.st)
                      IN  IF lhs_t.raised THEN lhs_t
                          ELSE LET rhs_t == _get_type(rhs.val, lhs_t.st)
                               IN  IF rhs_t.raised THEN rhs_t
                                   ELSE Ok(BinOperator(rhs_t.st.symbols[1][lhs.val.s],
                                                       rhs_t.st.symbols[1][rhs.val.s],
                                                       lhs_t.val, rhs_t.val),
                                           rhs_t.st)

visit_BoolOp(node, st) == Raise("NotImplementedError", st)

visit_Compare(node, st) == Raise("NotImplementedError", st)

visit_Call(node, st) == Raise("NotImplementedError", st)

visit_keyword(node, st) ==
    LET value == visit(node.kvalue, st)
    IN  IF value.raised THEN value
        ELSE Ok(PyTuple(<<PyStr(node.arg), value.val>>), value.st)

visit_Attribute(node, st) ==
    LET value == visit(node.aval, st)
    IN  IF value.raised THEN value
        ELSE IF value.val.py # "list"
             THEN Ok(PyList(<<value.val, PyStr(node.attr)>>), value.st)
             ELSE Ok(PyList(Append(value.val.items, PyStr(node.attr))), value.st)

visit_Assign(node, st) ==
    IF Len(node.targets) # 1 THEN Raise("AssertionError", st)
    ELSE LET target == node.targets[1]
             id == visit(target, st)
         IN  IF id.raised THEN id
             ELSE LET value == visit(node.value, id.st)
                  IN  IF value.raised THEN value
                      \* self.scope_arrays is never set on the visitor
                      ELSE IF target.kind = "Attribute"
                           THEN Raise("AttributeError", value.st)
                           ELSE Raise("NotImplementedError", value.st)

visit_AnnAssign(node, st) == Ok(PyNone, st)

visit_AugAssign(node, st) == Ok(PyNone, st)

visit_If(node, st) == Ok(PyNone, st)

visit_For(node, st) == Ok(PyNone, st)

visit_Return(node, st) ==
    IF node.value.kind = "None"
    THEN Ok(ReturnStmt(NoneExpr, PyNone), st)
    ELSE LET rt_expr == visit(node.value, st)
         IN  IF rt_expr.raised THEN rt_expr
             ELSE IF rt_expr.val.py = "tuple" THEN Raise("SyntaxError", rt_expr.st)
             ELSE Ok(ReturnStmt(PyNone, Span), rt_expr.st)

pointer_var_name == "handle_2_71828182846"
pointer_var == PrimVar(pointer_var_name, "handle")

\* visit_FunctionDef up to and including push_handle_var
FunctionDefEnter(node, st) ==
    LET st1 == new_scope(ScopeContext(st), node.fbody)
        params == [i \in 1..Len(args) |-> PrimVar(args[i].name, args[i].type.dtype)]
        st2 == [st1 EXCEPT
                  !.symbols[1] = [n \in ArgNames(args) |->
                                    PrimVar(n, args[ArgType(args, n)].type.dtype)],
                  !.func_params = params,
                  !.buffer_table = @ \cup ArgNames(args),
                  !.return_buffer = TRUE]
        st3 == [update_symbol(st2, pointer_var_name, pointer_var)
                  EXCEPT !.func_params = Append(@, pointer_var)]
    IN  [st3 EXCEPT !.session_handle_var_ctx =
                      push_handle_var(@, st3.func_params[Len(st3.func_params)])]

\* visit_FunctionDef after parse_body has returned body_stmts
FunctionDefExit(st, body_stmts) ==
    LET func == Function(st.func_params, to_seq_stmt(body_stmts, Span), Span)
        st1 == [st EXCEPT !.session_handle_var_ctx = pop_handle_var(@)]
    IN  Ok(func, pop_scope(st1))

visit_FunctionDef(node, st) ==
    LET r == parse_body_loop(FunctionDefEnter(node, st), <<>>, AstNone, TRUE)
    IN  IF r.raised THEN Raise(r.err, r.st) ELSE FunctionDefExit(r.st, r.body)

visit(node, st) ==
    IF node.kind \notin VisitorKinds THEN generic_visit(node, st)
    ELSE CASE node.kind = "FunctionDef" -> visit_FunctionDef(node, st)
           [] node.kind = "Constant" -> visit_Constant(node, st)
           [] node.kind = "Name" -> visit_Name(node, st)
           [] node.kind = "UnaryOp" -> visit_UnaryOp(node, st)
           [] node.kind = "BinOp" -> visit_BinOp(node, st)
           [] node.kind = "BoolOp" -> visit_BoolOp(node, st)
           [] node.kind = "Compare" -> visit_Compare(node, st)
           [] node.kind = "Call" -> visit_Call(node, st)
           [] node.kind = "keyword" -> visit_keyword(node, st)
           [] node.kind = "Attribute" -> visit_Attribute(node, st)
           [] node.kind = "Assign" -> visit_Assign(node, st)
           [] node.kind = "AnnAssign" -> visit_AnnAssign(node, st)
           [] node.kind = "AugAssign" -> visit_AugAssign(node, st)
           [] node.kind = "If" -> visit_If(node, st)
           [] node.kind = "For" -> visit_For(node, st)
           [] node.kind = "Return" -> visit_Return(node, st)

\* the result of (part of) parse_body: its locals and the visitor state
BodyResult(raised, err, st, stmts, last) ==
    [raised |-> raised, err |-> err, st |-> st, body |-> stmts, last_ast |-> last]

\* one iteration of the while loop of parse_body
parse_body_iter(st, stmts, last) ==
    LET top == Len(st.node_stack)
        frame == st.node_stack[top]
        node == frame[Len(frame)]
        res == visit(node, [st EXCEPT !.node_stack[top] = ButLast(frame)])
    IN  IF res.raised THEN BodyResult(TRUE, res.err, res.st, stmts, node)
        ELSE IF res.val.py # "None"
             THEN IF ~IsStmt(res.val)
                  THEN BodyResult(TRUE, "SyntaxError", res.st, stmts, node)
                  ELSE BodyResult(FALSE, "none", res.st, Append(stmts, res.val), node)
             ELSE BodyResult(FALSE, "none", res.st, stmts, node)

\* the condition without its test of last_ast
AutoAddReturn_EmptyOnly(auto_add_return, stmts, last) ==
    auto_add_return /\ Len(stmts) = 0

\* the condition under which parse_body appends a synthesized bare return
AutoAddReturn(auto_add_return, stmts, last) ==
    auto_add_return /\ (Len(stmts) = 0 \/ last.kind # "Return")

\* parse_body after its while loop
parse_body_tail(st, stmts, last, auto_add_return) ==
    IF AutoAddReturn(auto_add_return, stmts, last)
    THEN LET res == visit(Return(AstNone), st)
         IN  BodyResult(res.raised, res.err, res.st, Append(stmts, res.val), last)
    ELSE BodyResult(FALSE, "none", st, stmts, last)

parse_body_loop(st, stmts, last, auto_add_return) ==
    IF Len(st.node_stack[Len(st.node_stack)]) > 0
    THEN LET r == parse_body_iter(st, stmts, last)
         IN  IF r.raised THEN r
             ELSE parse_body_loop(r.st, r.body, r.last_ast, auto_add_return)
    ELSE parse_body_tail(st, stmts, last, auto_add_return)

-----------------------------------------------------------------------------
(* The kernels and compiling objects a call is given *)

TypeMN(dtype) == NDType(dtype, <<SymDim("M"), SymDim("N")>>)

Signatures ==
    { <<>>,
      <<Arg("a", TypeMN("int32")), Arg("b", TypeMN("float32"))>>,
      <<Arg("a", NDType("int32", <<IntDim(2), IntDim(3)>>))>>,
      \* one symbol in two dimensions of a shape, beside a concrete dimension
      <<Arg("a", NDType("int32", <<SymDim("M"), SymDim("M"), IntDim(2)>>)),
        Arg("b", NDType("int32", <<SymDim("N")>>))>>,
      \* two symbols of one name (sympy.Symbol('M', positive=True) and
      \* sympy.Symbol('M')), in two parameters and in one shape
      <<Arg("a", TypeMN("int32")),
        Arg("b", NDType("int32", <<Symbol("M", "none")>>))>>,
      <<Arg("a", NDType("int32", <<SymDim("M"), Symbol("M", "none")>>))>> }

\* the values a kernel returns: names that are parameters ("a", "b"), a shape
\* symbol ("M"), a name bound nowhere ("zz"), literals, operators, a tuple
ReturnValues ==
    { Name("a"), Name("M"), Name("zz"),
      Constant("Number"), Constant("Str"),
      UnaryOp(Name("a")), UnaryOp(Name("M")),
      BinOp(Name("a"), Name("b")),
      Compare(Name("a"), Name("b")),
      Tuple(<<Name("a"), Name("b")>>),
      Subscript(Name("a")) }

AssignStmts ==
    { Assign(<<Name("k")>>, Constant("Number")),
      Assign(<<Name("a")>>, Constant("Number")),
      Assign(<<Name("a")>>, Subscript(Name("a"))),
      Assign(<<Attribute(Name("a"), "x")>>, Constant("Number")),
      Assign(<<Name("a"), Name("b")>>, Constant("Number")) }

Stmts ==
    {Return(AstNone)} \cup {Return(e) : e \in ReturnValues} \cup AssignStmts
    \cup {Block("AnnAssign"), Block("AugAssign"), Block("If"), Block("For"),
          Block("While")}
    \cup {FunctionDef(<<Return(AstNone)>>), FunctionDef(<<Block("While")>>)}

Bodies == UNION {[1..n -> Stmts] : n \in 1..MaxBody}

\* what the collaborators of from_source can raise
FsExceptions ==
    [kind : {"OSError", "KeyboardInterrupt", "Exception"},
     msg : {"m1", "m2"}, cause : {"None", "chained"}]

NoExc == [kind |-> "none", msg |-> "", cause |-> "None"]

\* an exception the visitor raises: `raise Kind(message)`, no cause
VisitorExc(kind) == [kind |-> kind, msg |-> "visitor", cause |-> "None"]

-----------------------------------------------------------------------------
(* The state machine *)

St == [node_stack |-> node_stack, symbols |-> symbols, func_params |-> func_params,
       session_handle_var_ctx |-> session_handle_var_ctx,
       buffer_table |-> buffer_table, return_buffer |-> return_buffer]

SetSt(st) ==
    /\ node_stack' = st.node_stack
    /\ symbols' = st.symbols
    /\ func_params' = st.func_params
    /\ session_handle_var_ctx' = st.session_handle_var_ctx
    /\ buffer_table' = st.buffer_table
    /\ return_buffer' = st.return_buffer

Init ==
    /\ driver \in {"parse2", "from_source"}
    /\ dev_mode \in BOOLEAN
    /\ args \in Signatures
    /\ kp_symbols \in SymbolsOf(args, Len(args))
    /\ undiscovered \in (IF driver = "parse2" THEN 0..MaxDeps ELSE {0})
    /\ pc = IF driver = "parse2" THEN "src_anls" ELSE "fs_setup"
    /\ ast_body = <<>>
    /\ node_stack = <<>>
    /\ symbols = <<>>
    /\ func_params = <<>>
    /\ session_handle_var_ctx = <<>>
    /\ buffer_table = {}
    /\ return_buffer = FALSE
    /\ body = <<>>
    /\ last_ast = AstNone
    /\ ir = PyNone
    /\ raised_exc = NoExc
    /\ exc = NoExc

\* parse2: src_anls.run(sc_ctx)
SrcAnalysis ==
    /\ pc = "src_anls"
    /\ pc' = "mdo_anls"
    /\ UNCHANGED <<driver, dev_mode, args, kp_symbols, undiscovered, ast_body,
                   node_stack, symbols, func_params, session_handle_var_ctx,
                   buffer_table, return_buffer, body, last_ast, ir, raised_exc, exc>>

\* parse2: mdo_anls.run(sc_ctx)
ModAnalysis ==
    /\ pc = "mdo_anls"
    /\ pc' = "dep_anls"
    /\ UNCHANGED <<driver, dev_mode, args, kp_symbols, undiscovered, ast_body,
                   node_stack, symbols, func_params, session_handle_var_ctx,
                   buffer_table, return_buffer, body, last_ast, ir, raised_exc, exc>>

\* a loop that, after a pass that reports a change, runs the module analysis
\* without the source analysis
DepAnalysis_SkipSource ==
    /\ pc = "dep_anls"
    /\ IF undiscovered > 0
       THEN /\ \E k \in 1..undiscovered : undiscovered' = undiscovered - k
            /\ pc' = "mdo_anls"
       ELSE /\ undiscovered' = undiscovered
            /\ pc' = "parser_node"
    /\ UNCHANGED <<driver, dev_mode, args, kp_symbols, ast_body,
                   node_stack, symbols, func_params, session_handle_var_ctx,
                   buffer_table, return_buffer, body, last_ast, ir, raised_exc, exc>>

\* parse2: the test `while dep_anls.run(sc_ctx)`; a pass reports a change when
\* it discovers dependencies
DepAnalysis ==
    /\ pc = "dep_anls"
    /\ IF undiscovered > 0
       THEN /\ \E k \in 1..undiscovered : undiscovered' = undiscovered - k
            /\ pc' = "src_anls"
       ELSE /\ undiscovered' = undiscovered
            /\ pc' = "parser_node"
    /\ UNCHANGED <<driver, dev_mode, args, kp_symbols, ast_body,
                   node_stack, symbols, func_params, session_handle_var_ctx,
                   buffer_table, return_buffer, body, last_ast, ir, raised_exc, exc>>

\* parse2: parser_node calls visit(node.ast); node.ast is a FunctionDef, and
\* visit_FunctionDef runs up to its call of parse_body
VisitFunctionDef ==
    /\ pc = "parser_node"
    /\ ast_body' \in Bodies
    /\ SetSt(FunctionDefEnter(FunctionDef(ast_body'), St))
    /\ body' = <<>>
    /\ last_ast' = AstNone
    /\ pc' = "parse_body"
    /\ UNCHANGED <<driver, dev_mode, args, kp_symbols, undiscovered, ir, raised_exc, exc>>

\* one iteration of the while loop of the outermost parse_body; an exception
\* leaves visit_FunctionDef, parser_node and parse2, none of which handles it
ParseBodyStep ==
    /\ pc = "parse_body"
    /\ Len(node_stack[Len(node_stack)]) > 0
    /\ LET r == parse_body_iter(St, body, last_ast)
       IN  /\ SetSt(r.st)
           /\ body' = r.body
           /\ last_ast' = r.last_ast
           /\ pc' = IF r.raised THEN "raised" ELSE "parse_body"
           /\ raised_exc' = IF r.raised THEN VisitorExc(r.err) ELSE raised_exc
           /\ exc' = IF r.raised THEN VisitorExc(r.err) ELSE exc
    /\ UNCHANGED <<driver, dev_mode, args, kp_symbols, undiscovered, ast_body, ir>>

\* the outermost parse_body leaves its loop and returns
ParseBodyReturn ==
    /\ pc = "parse_body"
    /\ Len(node_stack[Len(node_stack)]) = 0
    /\ LET r == parse_body_tail(St, body, last_ast, TRUE)
       IN  /\ SetSt(r.st)
           /\ body' = r.body
           /\ last_ast' = r.last_ast
    /\ pc' = "build"
    /\ UNCHANGED <<driver, dev_mode, args, kp_symbols, undiscovered, ast_body, ir,
                   raised_exc, exc>>

\* visit_FunctionDef builds the Function, pops the handle and the scope, returns
BuildFunction ==
    /\ pc = "build"
    /\ LET r == FunctionDefExit(St, body)
       IN  /\ SetSt(r.st)
           /\ ir' = r.val
    /\ pc' = "done"
    /\ UNCHANGED <<driver, dev_mode, args, kp_symbols, undiscovered, ast_body,
                   body, last_ast, raised_exc, exc>>

\* from_source: `except BaseException as e`
except_handler(e) ==
    IF dev_mode THEN e ELSE [kind |-> "Exception", msg |-> e.msg, cause |-> "None"]

\* the rest of a step of the try block of from_source: the step completes
\* and the call goes on at `to`, or a collaborator raises and the handler runs
FsStep(to) ==
    /\ \/ /\ pc' = to
          /\ UNCHANGED <<raised_exc, exc>>
       \/ \E e \in FsExceptions :
            /\ pc' = "raised"
            /\ raised_exc' = e
            /\ exc' = except_handler(e)
    /\ UNCHANGED <<driver, dev_mode, args, kp_symbols, undiscovered, ast_body,
                   node_stack, symbols, func_params, session_handle_var_ctx,
                   buffer_table, return_buffer, body, last_ast, ir>>

\* from_source: the ScriptContext is set up, the signature read
FromSourceSetup ==
    /\ pc = "fs_setup"
    /\ FsStep("fs_compile")

\* from_source: extract_inductor_code and matx_cpp_code_format
FromSourceCompile ==
    /\ pc = "fs_compile"
    /\ FsStep("fs_export")

\* from_source: the code is written to path_prefix(sc_ctx)
FromSourceExport ==
    /\ pc = "fs_export"
    /\ FsStep("fs_build")

\* from_source: embedded.build.c builds the module; sc_ctx is returned
FromSourceBuild ==
    /\ pc = "fs_build"
    /\ FsStep("done")

Next ==
    \/ SrcAnalysis
    \/ ModAnalysis
    \/ DepAnalysis
    \/ VisitFunctionDef
    \/ ParseBodyStep
    \/ ParseBodyReturn
    \/ BuildFunction
    \/ FromSourceSetup
    \/ FromSourceCompile
    \/ FromSourceExport
    \/ FromSourceBuild

Spec == Init /\ [][Next]_vars

\* parse2 is one synchronous run on one call stack: each of its steps up to
\* the call of the visitor is taken once it is the next step
\* the calls of parse2, on a kernel with no parameter and on the kernel
\* signature of test_scalar_rhs_nd1 (the analysis loop reads no signature)
Parse2Init ==
    /\ Init
    /\ driver = "parse2"
    /\ args \in {<<>>, <<Arg("a", TypeMN("int32")), Arg("b", TypeMN("float32"))>>}

Parse2Next ==
    \/ SrcAnalysis
    \/ ModAnalysis
    \/ DepAnalysis
    \/ VisitFunctionDef
    \/ ParseBodyStep
    \/ ParseBodyReturn
    \/ BuildFunction

FairSpec ==
    /\ Parse2Init
    /\ [][Parse2Next]_vars
    /\ WF_vars(SrcAnalysis) /\ WF_vars(ModAnalysis) /\ WF_vars(DepAnalysis)
    /\ WF_vars(VisitFunctionDef)

-----------------------------------------------------------------------------
(* The claims *)

\* the last statement of the kernel body
LastStmt == ast_body[Len(ast_body)]

\* the statements of the body of the IR function
IrStmts == IF ir.fbody.py = "SeqStmt" THEN ir.fbody.seq ELSE <<ir.fbody>>

Lowered == driver = "parse2" /\ pc = "done"

\* the names the program knows: declared parameters and shape symbols (the
\* visitor records no locals)
Known(n) == n \in ArgNames(args) \cup DOMAIN kp_symbols

RaisedKind(k) == pc = "raised" /\ exc.kind = k

\* C1: a lowering that returns an IR function returns one in which every
\* source statement of the body is represented, so the IR body has at least
\* as many statements as the source body.
C1_NoStatementDropped ==
    Lowered => Len(IrStmts) >= Len(ast_body)

\* C2: when lowering of the function body raises, the scope frame pushed on
\* entering it has been popped: the scope stack is as deep as before the
\* block was entered, which is empty.
C2_FramePoppedOnError ==
    (driver = "parse2" /\ pc = "raised") => Len(node_stack) = 0

\* C3: visiting a node of a kind with no visit_<Kind> method (a statement of
\* the body, the value of a return, or the target or value of a single-target
\* assignment whose target lowered) raises NotImplementedError and returns
\* nothing.
C3_ClosedDispatch ==
    /\ last_ast.kind \notin VisitorKinds \cup {"None"}
         => RaisedKind("NotImplementedError")
    /\ (last_ast.kind = "Return"
        /\ last_ast.value.kind \notin VisitorKinds \cup {"None"})
         => RaisedKind("NotImplementedError")
    /\ (last_ast.kind = "Assign" /\ Len(last_ast.targets) = 1
        /\ (\/ last_ast.targets[1].kind \notin VisitorKinds
            \/ /\ last_ast.targets[1].kind = "Name"
               /\ last_ast.value.kind \notin VisitorKinds))
         => RaisedKind("NotImplementedError")

C3_Witness ==
    /\ RaisedKind("NotImplementedError")
    /\ last_ast.kind = "While"
    /\ Len(body) = 1

\* C4: resolving the type of a name succeeds when the name is a declared
\* parameter or a shape symbol, and a reference to any other name raises a
\* SyntaxError.
C4_NameResolution ==
    /\ (last_ast.kind = "Return" /\ last_ast.value.kind = "UnaryOp"
        /\ last_ast.value.operand.kind = "Name")
         => IF Known(last_ast.value.operand.id)
            THEN pc # "raised"
            ELSE RaisedKind("SyntaxError")
    /\ (last_ast.kind = "Return" /\ last_ast.value.kind = "Name"
        /\ ~Known(last_ast.value.id))
         => RaisedKind("SyntaxError")

\* C5: a single-target assignment of a literal to a name raises a SyntaxError
\* when the name was never declared, and raises nothing when the name is
\* declared in an enclosing scope.
C5_AssignTarget ==
    (last_ast.kind = "Assign" /\ Len(last_ast.targets) = 1
     /\ last_ast.targets[1].kind = "Name" /\ last_ast.value.kind = "Constant")
      => IF last_ast.targets[1].id \in ArgNames(args)
         THEN pc # "raised"
         ELSE RaisedKind("SyntaxError")

\* C6: lowering a return statement whose value is a tuple raises a
\* SyntaxError.
C6_TupleReturn ==
    (last_ast.kind = "Return" /\ last_ast.value.kind = "Tuple")
      => RaisedKind("SyntaxError")

\* C7: when the kernel ends in `return a`, a a declared parameter, the last
\* statement of the IR function body is a return of the variable bound to a.
C7_ReturnCarriesValue ==
    (Lowered /\ LastStmt.kind = "Return" /\ LastStmt.value.kind = "Name"
     /\ LastStmt.value.id \in ArgNames(args))
      => LET ret == IrStmts[Len(IrStmts)]
         IN  /\ ret.py = "ReturnStmt"
             /\ ret.rvalue.py = "PrimVar"
             /\ ret.rvalue.name = LastStmt.value.id

\* C8: while the body is lowered the n parameters are bound under their own
\* names in the outermost scope, in declared order, followed by the one handle
\* parameter, which is the handle on the handle-variable stack; the function
\* returned has these n+1 parameters, and the handle-variable stack is back to
\* its depth before visit_FunctionDef.
C8_ParamsAndHandle ==
    /\ pc \in {"parse_body", "build"} =>
         /\ Len(func_params) = Len(args) + 1
         /\ \A i \in 1..Len(args) :
              /\ func_params[i].name = args[i].name
              /\ symbols[1][args[i].name] = func_params[i]
         /\ func_params[Len(args) + 1] = pointer_var
         /\ session_handle_var_ctx = <<pointer_var>>
    /\ Lowered =>
         /\ Len(ir.params) = Len(args) + 1
         /\ \A i \in 1..Len(args) : ir.params[i].name = args[i].name
         /\ ir.params[Len(args) + 1] = pointer_var
         /\ \A i \in 1..Len(args) : ir.params[i] # pointer_var
         /\ session_handle_var_ctx = <<>>

C8_Witness ==
    /\ Lowered
    /\ Len(args) = 2
    /\ Len(ir.params) = 3

\* C9: when the outermost parse_body returns, it has appended a bare return
\* to the lowered statements exactly when the body does not end in a return
\* statement, and the list it returns ends with a return statement.
C9_AutoReturn ==
    [][(pc = "parse_body" /\ pc' = "build") =>
         /\ body' = IF LastStmt.kind = "Return"
                    THEN body
                    ELSE Append(body, ReturnStmt(NoneExpr, PyNone))
         /\ Len(body') > 0
         /\ body'[Len(body')].py = "ReturnStmt"]_vars

C9_Witness ==
    /\ pc = "build"
    /\ Len(ast_body) = 2
    /\ ast_body[1].kind = "Return"
    /\ LastStmt.kind = "For"
    /\ body = <<ReturnStmt(PyNone, Span), ReturnStmt(NoneExpr, PyNone)>>

\* C10: an exception raised while the driver runs reaches the caller
\* unchanged in development mode, and in normal mode as a generic Exception
\* that carries the message and no cause.
C10_ErrorSurface ==
    pc = "raised" =>
      IF dev_mode
      THEN exc = raised_exc
      ELSE exc = [kind |-> "Exception", msg |-> raised_exc.msg, cause |-> "None"]

\* the symbolic dimensions of the shapes of the parameters
SymbolicDims(as) ==
    {d \in UNION {{as[i].type.shape[j] : j \in 1..Len(as[i].type.shape)} :
                    i \in 1..Len(as)} : is_symbol(d)}

\* the parameters in every order
Reorderings(as) ==
    {[i \in 1..Len(as) |-> as[q[i]]] : q \in Permutations(1..Len(as))}

\* every name is the name of one symbol only
OneSymbolPerName(as) ==
    \A s, t \in SymbolicDims(as) : s.name = t.name => s = t

\* the symbols of the last parameter whose shape has a symbol named n
LastWith(as, n) ==
    LET has == {i \in 1..Len(as) :
                  \E j \in 1..Len(as[i].type.shape) :
                    is_symbol(as[i].type.shape[j]) /\ as[i].type.shape[j].name = n}
        i == CHOOSE k \in has : \A m \in has : m <= k
    IN  {d \in SymbolicDims(<<as[i]>>) : d.name = n}

\* the mapping is keyed by the names of the symbolic dimensions, one entry a
\* name, and is empty when there is none
KeyedByName ==
    /\ SymbolicDims(args) = {} => kp_symbols = EmptyMap
    /\ DOMAIN kp_symbols = {d.name : d \in SymbolicDims(args)}
    /\ \A n \in DOMAIN kp_symbols :
         kp_symbols[n] \in SymbolicDims(args) /\ kp_symbols[n].name = n

\* C11: the symbols extracted from the parameter types are a mapping keyed by
\* symbol name, empty when no shape has a symbolic dimension, with one entry
\* for each name however often it is repeated, and processing the parameters
\* in another order gives the same mapping.
C11_SymbolTable ==
    /\ KeyedByName
    /\ \A as \in Reorderings(args) : kp_symbols \in SymbolsOf(as, Len(as))

\* C11 as amended: the mapping is keyed by symbol name, empty when no shape
\* has a symbolic dimension, with one entry for each name however often it is
\* repeated; its keys are the same in whatever order the parameters are
\* processed, its entry for a name is a symbol of the last parameter that has
\* the name, and the whole mapping is the same in every order when every name
\* names one symbol only.
C11_SymbolTableAmended ==
    /\ KeyedByName
    /\ \A n \in DOMAIN kp_symbols : kp_symbols[n] \in LastWith(args, n)
    /\ \A as \in Reorderings(args) :
         \A r \in SymbolsOf(as, Len(as)) :
           /\ DOMAIN r = DOMAIN kp_symbols
           /\ OneSymbolPerName(args) => r = kp_symbols

C11_Witness ==
    /\ Len(args) = 2
    /\ ~OneSymbolPerName(args)
    /\ DOMAIN kp_symbols = {"M", "N"}
    /\ kp_symbols["M"] = Symbol("M", "none")
    /\ kp_symbols["M"] # args[1].type.shape[1]

\* C12: the body of the IR function is a SeqStmt of the lowered statement
\* list, whatever the length of the list.
C12_SingleSeqBody ==
    Lowered => ir.fbody = SeqStmt(body, Span)

\* C12 as amended: the lowered statement list is never empty; the body of the
\* IR function is a SeqStmt of the list when the list has two statements or
\* more, and is the statement itself when the list has exactly one.
C12_SeqOrLoneStmt ==
    Lowered =>
      /\ Len(body) >= 1
      /\ IF Len(body) = 1
         THEN ir.fbody = body[1] /\ ir.fbody.py # "SeqStmt"
         ELSE ir.fbody = SeqStmt(body, Span)

C12_Witness ==
    /\ Lowered
    /\ Len(body) = 1
    /\ ir.fbody = ReturnStmt(PyNone, Span)

\* the dependency-analysis pass taken in this step reported a change
PassChanged == undiscovered' < undiscovered

\* C13: parse2 starts with the source analysis; the source analysis is always
\* followed by the module analysis and that by a dependency-analysis pass; a
\* pass that reports a change is followed by the source analysis again, the
\* first pass that reports none ends the loop; the visitor is entered only
\* from there; and every call of parse2 comes to enter the visitor.
C13_AnalysisFixedPoint ==
    /\ (driver = "parse2" => pc = "src_anls")
    /\ [][/\ pc = "src_anls" => pc' = "mdo_anls"
          /\ pc = "mdo_anls" => pc' = "dep_anls"
          /\ pc' = "mdo_anls" => pc = "src_anls"
          /\ pc' = "dep_anls" => pc = "mdo_anls"
          /\ pc = "dep_anls" => IF PassChanged THEN pc' = "src_anls"
                                               ELSE pc' = "parser_node"
          /\ pc' = "parser_node" => pc = "dep_anls" /\ ~PassChanged
          /\ pc' = "parse_body" => pc \in {"parser_node", "parse_body"}
          /\ pc = "parser_node" => pc' = "parse_body"]_vars
    /\ (driver = "parse2" /\ pc = "src_anls") ~> (pc = "parse_body")

C13_Witness ==
    /\ pc = "parse_body"
    /\ Len(ast_body) = 2
    /\ Len(node_stack[1]) = 2

====
